---- MODULE Spec2Model ----
(***************************************************************************)
(* Model of the moodle_scraper package: the MoodleScraper session          *)
(* lifecycle (initialize / login / navigateToClass / scrapeAll / close),   *)
(* the scrapeMoodle convenience function, the MoodleAuth login protocol    *)
(* and the two-factor wait loops of the 2FA guide and the Duo example.     *)
(*                                                                         *)
(* The browser driver is the environment.  A page is what the driver       *)
(* reports about it: the set of selectors for which page.$ finds an        *)
(* element, the text of the first error-styled element and the string      *)
(* page.content() returns.  page.$ answers "element" or "null" for any     *)
(* selector string, as the mocked driver of the test-suite does.           *)
(***************************************************************************)
EXTENDS Integers, Sequences, FiniteSets, TLC

VARIABLES browser, page, launched, closed, dom, stack, last, hist, during, auth, tf,
          trail, credentials, course, gradebook, gen, tasks, calc

\* the variables the session's methods leave alone
elsewhere == <<credentials, course, gradebook, gen, tasks, calc>>

\* the variables of the scrape methods
scraping == <<course, gradebook, gen, tasks>>

\* the variables of the session's lifecycle
session ==
    <<browser, page, launched, closed, dom, stack, last, hist, during, auth, tf, trail,
      credentials>>

vars == <<browser, page, launched, closed, dom, stack, last, hist, during, auth, tf,
          trail, credentials, course, gradebook, gen, tasks, calc>>

\* Bound of the model: browsers one instance launches in a run.
MaxLaunch == 3

(***************************************************************************)
(* Strings                                                                 *)
(***************************************************************************)
\* String.prototype.includes
Includes(s, t) ==
    \E i \in 1..(Len(s) - Len(t) + 1) : SubSeq(s, i, i + Len(t) - 1) = t

Null == "<null>"

(***************************************************************************)
(* Pages the driver can show                                               *)
(***************************************************************************)
Pg(sel, errText, content) == [sel |-> sel, errText |-> errText, content |-> content]

BlankPage == Pg({}, "", "")

LoginPage ==
    Pg({"input[name=\"username\"]", "input[name=\"password\"]",
        "button[type=\"submit\"]", "#loginbtn", "input[name=\"logintoken\"]"},
       "", "<form>Log in</form>")

EmailLoginPage ==
    Pg({"input[type=\"email\"]", "input[type=\"password\"]", "input[type=\"submit\"]"},
       "", "<form>Sign in</form>")

NoButtonPage ==
    Pg({"input[name=\"username\"]", "input[name=\"password\"]"},
       "", "<form>Log in</form>")

InvalidLoginPage ==
    Pg({"input[name=\"username\"]", "input[name=\"password\"]",
        "button[type=\"submit\"]", ".error", "[class*=\"error\"]"},
       "Invalid login", "<div class=\"error\">Invalid login</div>")

WrongPasswordPage ==
    Pg({".alert-danger"},
       "Your password is incorrect", "<div>Your password is incorrect</div>")

PortalPage ==
    Pg({"a[href*=\"login\"]"}, "", "<a>Log in</a>")

DashboardPage ==
    Pg({".usermenu", "a[href*=\"logout\"]", ".dashboard"}, "", "<div>Dashboard</div>")

CoursePage ==
    Pg({".usermenu", "a[href*=\"logout\"]", ".course-content", "#page-content",
        "a[href*=\"assign\"]", "a[href*=\"grade\"]"},
       "", "<div>Course</div>")

DuoPage ==
    Pg({"#duo_iframe"}, "", "<iframe>duo push</iframe>")

NoticePage ==
    Pg({".alert-danger", ".usermenu"},
       "Profile incomplete", "<div>Profile incomplete</div>")

Pages ==
    {BlankPage, LoginPage, EmailLoginPage, NoButtonPage, InvalidLoginPage,
     WrongPasswordPage, PortalPage, DashboardPage, CoursePage, DuoPage, NoticePage}

\* page.$(selector) for a selector list "a, b, c": an element when any part matches
Query(d, parts) == \E s \in parts : s \in d.sel

\* for (const selector of selectors) { if (await page.$(selector)) return selector } : first hit or Null
FirstMatch(d, sels) ==
    LET hits == {i \in 1..Len(sels) : sels[i] \in d.sel}
    IN  IF hits = {} THEN Null
        ELSE sels[CHOOSE i \in hits : \A j \in hits : i <= j]

(***************************************************************************)
(* Driver outcomes                                                         *)
(***************************************************************************)
NavOutcomes == {"ok", "timeout"}
NavigationTimeout == "Navigation timeout"
LaunchOutcomes == {"ok", "rejects"}
LaunchFailed == "Failed to launch the browser process"
CloseOutcomes == {"ok", "rejects"}
BrowserCrashed == "Browser crashed"

\* How a call ends: its value when it returns, its Error message when it throws
Ret(v) == [kind |-> "returned", msg |-> "", val |-> v]
Returned == Ret("void")
Threw(msg) == [kind |-> "threw", msg |-> msg, val |-> Null]

(***************************************************************************)
(* MoodleScraper: login helpers                                            *)
(***************************************************************************)
\* catch (error) { throw new Error(`Login failed: ${error.message}`) }
LoginFailed(msg) == "Login failed: " \o msg

\* the selector found, or the Error thrown after the loop
FoundOrThrow(sel, msg) == IF sel = Null THEN Threw(msg) ELSE Ret(sel)

FindLoginSelector(d) ==
    FoundOrThrow(
        FirstMatch(d, <<"input[name=\"username\"]", "input[name=\"email\"]",
                        "input[type=\"email\"]", "input[id*=\"email\"]",
                        "input[id*=\"username\"]", "#username", "#email">>),
        "Could not find email/username input field")

FindPasswordSelector(d) ==
    FoundOrThrow(
        FirstMatch(d, <<"input[name=\"password\"]", "input[type=\"password\"]",
                        "#password">>),
        "Could not find password input field")

FindLoginButton(d) ==
    FoundOrThrow(
        FirstMatch(d, <<"button[type=\"submit\"]", "input[type=\"submit\"]",
                        "button:contains(\"Login\")", "button:contains(\"Sign in\")",
                        ".btn-primary", "#loginbtn">>),
        "Could not find login button")

\* verifyLogin without its check of the page content
VerifyLoginUnchecked(d) == Returned

\* verifyLogin: the outcome of the check of page.content()
VerifyLogin(d) ==
    IF \/ Includes(d.content, "Invalid login")
       \/ Includes(d.content, "Login failed")
       \/ Includes(d.content, "incorrect")
    THEN Threw("Invalid credentials")
    ELSE Returned

(***************************************************************************)
(* MoodleAuth: login helpers                                               *)
(***************************************************************************)
\* catch (error) { throw new Error(`Authentication failed: ${error.message}`) }
AuthenticationFailed(msg) == "Authentication failed: " \o msg

\* \s, and the characters String.prototype.trim removes
IsSpace(c) == c \in {" ", "\t", "\n", "\r", "\f"}

\* String.prototype.trim
Trim(s) ==
    LET keep == {i \in 1..Len(s) : ~IsSpace(SubSeq(s, i, i))}
    IN  IF keep = {} THEN ""
        ELSE SubSeq(s, CHOOSE i \in keep : \A j \in keep : i <= j,
                       CHOOSE i \in keep : \A j \in keep : i >= j)

LoginFormMarkers ==
    {"input[name=\"username\"]", "input[name=\"password\"]", ".loginform", "#login",
     ".login-container"}

LoggedInMarkers ==
    {".usermenu", ".user-menu", "[data-region=\"user-menu\"]", ".navbar-nav .dropdown",
     "a[href*=\"logout\"]"}

IsAlreadyLoggedIn(d) ==
    IF Query(d, LoginFormMarkers) THEN FALSE
    ELSE Query(d, LoggedInMarkers)

\* page.$('input[name="username"], input[name="password"]')
HasLoginForm(d) == Query(d, {"input[name=\"username\"]", "input[name=\"password\"]"})

FindUsernameField(d) ==
    FirstMatch(d, <<"input[name=\"username\"]", "input[name=\"email\"]",
                    "input[type=\"email\"]", "input[id=\"username\"]", "input[id=\"email\"]",
                    "input[placeholder*=\"username\" i]", "input[placeholder*=\"email\" i]",
                    "input[aria-label*=\"username\" i]", "input[aria-label*=\"email\" i]",
                    ".form-group input[type=\"text\"]:first-of-type",
                    "form input[type=\"text\"]:first-of-type">>)

FindPasswordField(d) ==
    FirstMatch(d, <<"input[name=\"password\"]", "input[type=\"password\"]",
                    "input[id=\"password\"]", "input[placeholder*=\"password\" i]",
                    "input[aria-label*=\"password\" i]">>)

FindSubmitButton(d) ==
    FirstMatch(d, <<"input[type=\"submit\"]", "button[type=\"submit\"]",
                    "button:contains(\"Login\")", "button:contains(\"Sign in\")",
                    "button:contains(\"Log in\")", "input[value*=\"login\" i]",
                    "input[value*=\"sign in\" i]", ".btn-primary", ".login-btn",
                    "#loginbtn", "form button:last-of-type">>)

ErrorSelectors ==
    {".error", ".alert-danger", ".login-error", "[class*=\"error\"]",
     "div:contains(\"Invalid\")", "div:contains(\"incorrect\")", "div:contains(\"failed\")"}

HasFailureText(text) ==
    Includes(text, "Invalid") \/ Includes(text, "incorrect") \/ Includes(text, "failed")

SuccessIndicators ==
    {".usermenu", ".user-menu", "[data-region=\"user-menu\"]", "a[href*=\"logout\"]",
     ".navbar .dropdown"}

\* verifyLoginSuccess: error regions, then the login form, then the success markers
VerifyLoginSuccess(d) ==
    LET inner ==
            IF Query(d, ErrorSelectors) /\ d.errText # "" /\ HasFailureText(d.errText)
            THEN Threw("Login failed: " \o Trim(d.errText))
            ELSE IF HasLoginForm(d)
            THEN Threw("Login failed - still on login page")
            ELSE IF Query(d, SuccessIndicators) THEN Returned
            ELSE Returned
    IN  IF inner.kind = "threw"
        THEN Threw("Login verification failed: " \o inner.msg)
        ELSE inner

(***************************************************************************)
(* Calls in progress                                                       *)
(*                                                                         *)
(* stack holds the frames of the call in progress, outermost first; a      *)
(* frame is a method and the await it is at.  scrapeAll and scrapeMoodle   *)
(* await other methods, whose frame lies above theirs.                     *)
(***************************************************************************)
Frame(m, at, pending) == [m |-> m, at |-> at, pending |-> pending]

Top == stack[Len(stack)]
Rest == SubSeq(stack, 1, Len(stack) - 1)
Running(m, at) == stack # <<>> /\ Top.m = m /\ Top.at = at

\* the frames of the method awaited at label c
Awaited(c) ==
    IF c = "scrapeAll"
    THEN <<Frame("scrapeAll", "initialize", Returned), Frame("initialize", "run", Returned)>>
    ELSE IF c \in {"login", "authLogin"} THEN <<Frame(c, "goto", Returned)>>
    ELSE <<Frame(c, "run", Returned)>>

\* scrapeAll: initialize, login, navigateToClass, Promise.all of the four scrapers, close
ScrapeAllThen(at) ==
    CASE at = "initialize" -> "login"
      [] at = "login" -> "navigateToClass"
      [] at = "navigateToClass" -> "collect"
      [] at = "collect" -> "close"

\* scrapeMoodle: try { initialize; login; return scrapeAll } finally { close }
ScrapeMoodleThen(at) ==
    CASE at = "initialize" -> "login"
      [] at = "login" -> "scrapeAll"

Continue(rest, m, at, pending) ==
    [stack |-> rest \o <<Frame(m, at, pending)>> \o Awaited(at), done |-> FALSE, out |-> Returned]

\* The frames left when the top frame ended with o: frames below it take their
\* next await, or end themselves.
RECURSIVE Unwind(_, _)
Unwind(stk, o) ==
    IF stk = <<>> THEN [stack |-> <<>>, done |-> TRUE, out |-> o]
    ELSE LET top == stk[Len(stk)]
             rest == SubSeq(stk, 1, Len(stk) - 1)
         IN  IF top.m = "scrapeAll"
             THEN IF o.kind = "threw" THEN Unwind(rest, o)
                  ELSE IF top.at = "close" THEN Unwind(rest, Ret("data"))
                  ELSE Continue(rest, "scrapeAll", ScrapeAllThen(top.at), Returned)
             ELSE \* scrapeMoodle
                  IF top.at = "close"
                  THEN Unwind(rest, IF o.kind = "threw" THEN o ELSE top.pending)
                  ELSE IF o.kind = "threw" \/ top.at = "scrapeAll"
                  THEN Continue(rest, "scrapeMoodle", "close", o)
                  ELSE Continue(rest, "scrapeMoodle", ScrapeMoodleThen(top.at), Returned)

\* hist follows the sequence "initialize() returned, then login() or scrapeAll()
\* threw, then close() ended" over the calls as they end:
\* "initialized", "failed", "closed", and "none" when the sequence is broken.
Follows(h, m, kind) ==
    IF m = "initialize" /\ kind = "returned" THEN "initialized"
    ELSE IF h = "initialized" /\ m \in {"login", "scrapeAll"} /\ kind = "threw" THEN "failed"
    ELSE IF h = "failed" /\ m = "close" THEN "closed"
    ELSE "none"

\* the top frame ends with o; trail lists the methods that ended during the call
\* in progress, in the order in which they ended
Complete(o) ==
    LET u == Unwind(Rest, o)
    IN  /\ stack' = u.stack
        /\ trail' = Append(trail, [m |-> Top.m, kind |-> o.kind, msg |-> o.msg])
        /\ IF u.done
           THEN /\ last' = [op |-> stack[1].m, kind |-> u.out.kind, msg |-> u.out.msg,
                             val |-> u.out.val]
                /\ hist' = Follows(hist, stack[1].m, u.out.kind)
           ELSE UNCHANGED <<last, hist>>

\* the top frame moves to its next await
Goto(at) == /\ stack' = Rest \o <<Frame(Top.m, at, Top.pending)>>
            /\ UNCHANGED <<last, hist, trail>>

NoAuth ==
    [landed |-> FALSE, looked |-> FALSE, typed |-> FALSE, clicked |-> FALSE,
     settled |-> FALSE, shortcut |-> FALSE, landing |-> BlankPage, form |-> BlankPage]

TfIdle == [loop |-> "none", elapsed |-> 0, polls |-> 0, result |-> "idle",
           markers |-> TRUE, loggedIn |-> FALSE, denial |-> FALSE]

Open == launched \ closed

ScrapeMethods ==
    {"scrapeAssignments", "scrapeGrades", "scrapeFiles", "scrapeZybookIntegrations"}

Methods ==
    {"initialize", "login", "authLogin", "navigateToClass", "scrapeAll", "close",
     "scrapeMoodle", "isSessionValid"} \cup ScrapeMethods

(***************************************************************************)
(* Documents and the four scrape methods' tasks                            *)
(*                                                                         *)
(* A document is what page.$$ can find in it: a list of elements, each     *)
(* with the selector it matches and whether element.evaluate resolves on   *)
(* it, and whether page.$ finds a grades link.  gen counts the navigations *)
(* of the page since the call started: the course page is document 0, the  *)
(* page the grades link leads to is document 1.                            *)
(***************************************************************************)
Categories == {"assignments", "grades", "files", "zybookIntegrations"}

Element(sel, sound) == [sel |-> sel, sound |-> sound]
Document(els, link) == [els |-> els, link |-> link]
NoDocument == Document(<<>>, FALSE)

\* a scrape method that was not called
IdleTask == [at |-> "idle", els |-> <<>>, i |-> 0, out |-> <<>>, caught |-> FALSE]
NoTasks == [c \in Categories |-> IdleTask]

\* no helper of extractors.ts was applied yet
NoCalc == [fn |-> "none"]

\* new MoodleScraper(credentials): the constructor stores what it is given
Credential(email, password, classUrl) ==
    [email |-> email, password |-> password, classUrl |-> classUrl]

Credentials ==
    {Credential("test@example.com", "testpassword", "https://test-moodle.com/course/view.php?id=123"),
     Credential("", "", ""),
     Credential("test@example.com", "", "https://test-moodle.com/course/view.php?id=123"),
     Credential("test@example.com", "testpassword", "not-a-url")}

Init ==
    /\ credentials \in Credentials
    /\ browser = 0
    /\ page = 0
    /\ launched = {}
    /\ closed = {}
    /\ dom = BlankPage
    /\ stack = <<>>
    /\ last = [op |-> "new", kind |-> "returned", msg |-> "", val |-> "void"]
    /\ hist = "none"
    /\ during = {}
    /\ auth = NoAuth
    /\ tf = TfIdle
    /\ trail = <<>>
    /\ course = NoDocument
    /\ gradebook = NoDocument
    /\ gen = 0
    /\ tasks = NoTasks
    /\ calc = NoCalc

\* The caller starts a method; scrapeMoodle constructs the instance it works on.
Call(m) ==
    /\ stack = <<>>
    /\ m \in {"initialize", "scrapeAll"} => Cardinality(launched) < MaxLaunch
    /\ m = "scrapeMoodle" => last.op = "new" /\ MaxLaunch >= 2
    /\ m = "authLogin" => page # 0
    /\ stack' = IF m \in {"scrapeAll", "scrapeMoodle"}
                THEN <<Frame(m, "initialize", Returned)>> \o Awaited("initialize")
                ELSE Awaited(m)
    /\ during' = {}
    /\ auth' = NoAuth
    /\ trail' = <<>>
    /\ UNCHANGED <<browser, page, launched, closed, dom, last, hist, tf, elsewhere>>

(***************************************************************************)
(* MoodleScraper methods                                                   *)
(***************************************************************************)
Initialize ==
    /\ Running("initialize", "run")
    /\ \E l \in LaunchOutcomes :
         LET id == Cardinality(launched) + 1
         IN  IF l = "rejects"
             THEN /\ UNCHANGED <<browser, page, launched, dom, during>>
                  /\ Complete(Threw(LaunchFailed))
             ELSE /\ browser' = id
                  /\ launched' = launched \cup {id}
                  /\ during' = during \cup {id}
                  /\ page' = id
                  /\ dom' = BlankPage
                  /\ Complete(Returned)
    /\ UNCHANGED <<closed, auth, tf, elsewhere>>

\* close(): what browser.close() answers decides how it ends
CloseEnds(c) == IF c = "ok" THEN Returned ELSE Threw(BrowserCrashed)

\* a close() that forgets "this.page = null"
CloseKeepingPage ==
    /\ Running("close", "run")
    /\ IF browser = 0
       THEN UNCHANGED <<browser, page, closed, dom>> /\ Complete(Returned)
       ELSE \E c \in CloseOutcomes :
              LET o == CloseEnds(c)
              IN  /\ IF o.kind = "returned"
                     THEN /\ closed' = closed \cup {browser}
                          /\ browser' = 0
                          /\ UNCHANGED page
                          /\ dom' = BlankPage
                     ELSE UNCHANGED <<browser, page, closed, dom>>
                  /\ Complete(o)
    /\ UNCHANGED <<launched, during, auth, tf, elsewhere>>

\* close(): browser.close() is awaited only when there is a browser
Close ==
    /\ Running("close", "run")
    /\ IF browser = 0
       THEN UNCHANGED <<browser, page, closed, dom>> /\ Complete(Returned)
       ELSE \E c \in CloseOutcomes :
              LET o == CloseEnds(c)
              IN  /\ IF o.kind = "returned"
                     THEN /\ closed' = closed \cup {browser}
                          /\ browser' = 0
                          /\ page' = 0
                          /\ dom' = BlankPage
                     ELSE UNCHANGED <<browser, page, closed, dom>>
                  /\ Complete(o)
    /\ UNCHANGED <<launched, during, auth, tf, elsewhere>>

\* login(), from the form lookup to the lookup of the button: how it goes on and
\* whether the credentials were typed
LoginForm(d) ==
    LET e == FindLoginSelector(d)
        p == FindPasswordSelector(d)
        b == FindLoginButton(d)
    IN  IF e.kind = "threw" THEN [out |-> e, typed |-> FALSE]
        ELSE IF p.kind = "threw" THEN [out |-> p, typed |-> FALSE]
        ELSE IF e.val = "" \/ p.val = ""
        THEN [out |-> Threw("Could not find login form elements"), typed |-> FALSE]
        ELSE [out |-> b, typed |-> TRUE]

\* how login() ends when its try block ended with o
LoginEnds(o) == IF o.kind = "threw" THEN Threw(LoginFailed(o.msg)) ELSE Ret("true")

LoginGoto ==
    /\ Running("login", "goto")
    /\ IF page = 0
       THEN /\ auth' = NoAuth
            /\ UNCHANGED dom
            /\ Complete(Threw("Browser not initialized"))
       ELSE \E nav \in NavOutcomes, d \in Pages :
              IF nav = "timeout"
              THEN /\ auth' = NoAuth
                   /\ UNCHANGED dom
                   /\ Complete(LoginEnds(Threw(NavigationTimeout)))
              ELSE LET f == LoginForm(d)
                   IN  /\ dom' = d
                       /\ auth' = [NoAuth EXCEPT !.landed = TRUE, !.landing = d,
                                                 !.looked = TRUE, !.form = d,
                                                 !.typed = f.typed]
                       /\ IF f.out.kind = "threw"
                          THEN Complete(LoginEnds(f.out))
                          ELSE Goto("submit")
    /\ UNCHANGED <<browser, page, launched, closed, during, tf, elsewhere>>

LoginSubmit ==
    /\ Running("login", "submit")
    /\ \E nav \in NavOutcomes, d \in Pages :
         IF nav = "timeout"
         THEN /\ auth' = [auth EXCEPT !.clicked = TRUE]
              /\ UNCHANGED dom
              /\ Complete(LoginEnds(Threw(NavigationTimeout)))
         ELSE /\ auth' = [auth EXCEPT !.clicked = TRUE, !.settled = TRUE]
              /\ dom' = d
              /\ Complete(LoginEnds(VerifyLogin(d)))
    /\ UNCHANGED <<browser, page, launched, closed, during, tf, elsewhere>>

CourseSelectors == {".course-content", ".main-course-page", "#page-content"}

NavigateToClass ==
    /\ Running("navigateToClass", "run")
    /\ IF page = 0
       THEN UNCHANGED dom /\ Complete(Threw("Browser not initialized"))
       ELSE \E nav \in NavOutcomes, d \in Pages :
              IF nav = "timeout"
              THEN UNCHANGED dom /\ Complete(Threw(NavigationTimeout))
              ELSE /\ dom' = d
                   /\ IF Query(d, CourseSelectors)
                      THEN Complete(Returned)
                      ELSE Complete(Threw("Could not access class page. Please verify the class URL."))
    /\ UNCHANGED <<browser, page, launched, closed, during, auth, tf, elsewhere>>

GradesLink == {"a[href*=\"grade\"]", "a:contains(\"Grade\")", "a:contains(\"Gradebook\")"}

\* Promise.all of the four scrapers: each catches what its page work throws;
\* scrapeGrades follows the grades link when there is one
Collect ==
    /\ Running("collect", "run")
    /\ IF page = 0
       THEN UNCHANGED dom /\ Complete(Threw("Browser not initialized"))
       ELSE /\ IF Query(dom, GradesLink)
               THEN \E d \in Pages : dom' = d
               ELSE UNCHANGED dom
            /\ Complete(Ret("lists"))
    /\ UNCHANGED <<browser, page, launched, closed, during, auth, tf, elsewhere>>

(***************************************************************************)
(* MoodleAuth.login                                                        *)
(***************************************************************************)
\* performLogin up to the typing of the credentials
PerformLogin(d) ==
    IF \/ FindUsernameField(d) = Null
       \/ FindPasswordField(d) = Null
       \/ FindSubmitButton(d) = Null
    THEN [out |-> Threw("Could not locate all required login form elements"), typed |-> FALSE]
    ELSE [out |-> Returned, typed |-> TRUE]

AuthEnds(o) == IF o.kind = "threw" THEN Threw(AuthenticationFailed(o.msg)) ELSE Ret("true")

AuthForm(a, d) ==
    LET f == PerformLogin(d)
    IN  /\ dom' = d
        /\ auth' = [a EXCEPT !.looked = TRUE, !.form = d, !.typed = f.typed]
        /\ IF f.out.kind = "threw" THEN Complete(AuthEnds(f.out)) ELSE Goto("submit")

AuthGoto ==
    /\ Running("authLogin", "goto")
    /\ \E nav \in NavOutcomes, d \in Pages :
         LET a == [NoAuth EXCEPT !.landed = TRUE, !.landing = d]
         IN  IF nav = "timeout"
             THEN /\ auth' = NoAuth
                  /\ UNCHANGED dom
                  /\ Complete(AuthEnds(Threw(NavigationTimeout)))
             ELSE IF IsAlreadyLoggedIn(d)
             THEN /\ auth' = [a EXCEPT !.shortcut = TRUE]
                  /\ dom' = d
                  /\ Complete(Ret("true"))
             ELSE IF HasLoginForm(d)
             THEN AuthForm(a, d)
             ELSE /\ auth' = a
                  /\ dom' = d
                  /\ Goto("locate")
    /\ UNCHANGED <<browser, page, launched, closed, during, tf, elsewhere>>

\* findLoginUrl found no form on the landing page: it follows the login link, or
\* probes the common login paths (a failing probe is skipped) and falls back to
\* the landing URL
AuthLocate ==
    /\ Running("authLogin", "locate")
    /\ \E nav \in NavOutcomes, d \in Pages :
         IF /\ nav = "timeout"
            /\ Query(auth.landing, {"a[href*=\"login\"]"}) \/ ~HasLoginForm(d)
         THEN /\ UNCHANGED <<dom, auth>>
              /\ Complete(AuthEnds(Threw(NavigationTimeout)))
         ELSE AuthForm(auth, d)
    /\ UNCHANGED <<browser, page, launched, closed, during, tf, elsewhere>>

AuthSubmit ==
    /\ Running("authLogin", "submit")
    /\ \E nav \in NavOutcomes, d \in Pages :
         IF nav = "timeout"
         THEN /\ auth' = [auth EXCEPT !.clicked = TRUE]
              /\ UNCHANGED dom
              /\ Complete(AuthEnds(Threw(NavigationTimeout)))
         ELSE /\ auth' = [auth EXCEPT !.clicked = TRUE, !.settled = TRUE]
              /\ dom' = d
              /\ Complete(AuthEnds(VerifyLoginSuccess(d)))
    /\ UNCHANGED <<browser, page, launched, closed, during, tf, elsewhere>>

\* isSessionValid: the selectors whose match means the login form is back
LoginIndicators ==
    {"input[name=\"username\"]", "input[name=\"password\"]", ".login-form", "#loginform"}

\* the probe that takes every page it reaches for a valid session
SessionProbeTrusting(nav, probe, d) ==
    IF nav = "timeout" \/ probe = "rejects" THEN "false" ELSE "true"

\* isSessionValid with a page: goto and the lookups inside try, catch returns false
SessionProbe(nav, probe, d) ==
    IF nav = "timeout" \/ probe = "rejects" THEN "false"
    ELSE IF Query(d, LoginIndicators) THEN "false"
    ELSE "true"

\* auth.landed: the goto resolved; auth.looked: the lookups resolved
IsSessionValid ==
    /\ Running("isSessionValid", "run")
    /\ IF page = 0
       THEN /\ UNCHANGED <<dom, auth>>
            /\ Complete(Ret("false"))
       ELSE \E nav \in NavOutcomes, probe \in {"ok", "rejects"}, d \in Pages :
              /\ IF nav = "timeout"
                 THEN UNCHANGED <<dom, auth>>
                 ELSE /\ dom' = d
                      /\ auth' = [NoAuth EXCEPT !.landed = TRUE, !.landing = d,
                                                !.looked = (probe = "ok")]
              /\ Complete(Ret(SessionProbe(nav, probe, d)))
    /\ UNCHANGED <<browser, page, launched, closed, during, tf, elsewhere>>

\* a scrape method that skips "if (!this.page) throw"
ScrapeEndsUnguarded(p) == Ret("list")

\* how a scrape method ends: the guard on this.page, then the page work inside
\* try / catch and the list returned
ScrapeEnds(p) == IF p = 0 THEN Threw("Browser not initialized") ELSE Ret("list")

\* scrapeAssignments(), scrapeGrades(), scrapeFiles() or scrapeZybookIntegrations()
\* called by the caller; scrapeGrades follows the grades link when there is one
Scrape ==
    /\ stack # <<>>
    /\ Top.m \in ScrapeMethods
    /\ IF page # 0 /\ Top.m = "scrapeGrades" /\ Query(dom, GradesLink)
       THEN \E d \in Pages : dom' = d
       ELSE UNCHANGED dom
    /\ Complete(ScrapeEnds(page))
    /\ UNCHANGED <<browser, page, launched, closed, during, auth, tf, elsewhere>>

Start == \E m \in Methods : Call(m)

Next ==
    \/ Start
    \/ Initialize
    \/ Close
    \/ LoginGoto
    \/ LoginSubmit
    \/ NavigateToClass
    \/ Collect
    \/ Scrape
    \/ AuthGoto
    \/ AuthLocate
    \/ AuthSubmit
    \/ IsSessionValid

Spec == Init /\ [][Next]_vars

(***************************************************************************)
(* Two-factor challenges: detection and the wait loops                     *)
(***************************************************************************)
UpperCase == "ABCDEFGHIJKLMNOPQRSTUVWXYZ"
LowerCase == "abcdefghijklmnopqrstuvwxyz"

LowerChar(c) ==
    LET at == {i \in 1..Len(UpperCase) : SubSeq(UpperCase, i, i) = c}
    IN  IF at = {} THEN c ELSE SubSeq(LowerCase, CHOOSE i \in at : TRUE, CHOOSE i \in at : TRUE)

\* String.prototype.toLowerCase
RECURSIVE ToLowerCase(_)
ToLowerCase(s) ==
    IF s = "" THEN ""
    ELSE LowerChar(SubSeq(s, 1, 1)) \o ToLowerCase(SubSeq(s, 2, Len(s)))

TwoFactorSelectors ==
    {"input[name=\"pin\"]", "input[name=\"code\"]",
     "input[name=\"token\"]", "input[name=\"verification_code\"]", ".two-factor", ".2fa",
     ".mfa", "[class*=\"authenticator\"]", "input[placeholder*=\"code\" i]",
     "input[placeholder*=\"token\" i]", ".duo-frame", "#duo_iframe",
     "[src*=\"duosecurity.com\"]", ".duo-auth", ".duo-login", "iframe[title*=\"duo\" i]"}

TwoFactorIndicators ==
    {"two-factor", "authentication code", "verification code", "authenticator app",
     "text message", "SMS code", "duo mobile", "duo security", "duo authentication",
     "duosecurity.com", "push notification", "duo push", "checking for request",
     "waiting for response"}

\* detect2FA of the 2FA guide
Detect2FA(d) ==
    \/ Query(d, TwoFactorSelectors)
    \/ \E w \in TwoFactorIndicators : Includes(ToLowerCase(d.content), w)

IsOnDashboard(d) ==
    Query(d, {".dashboard", ".course-overview", ".block_myoverview",
              "[data-region=\"view-overview\"]"})

\* the Duo example
DetectDuoMobile(d) ==
    \/ Query(d, {"iframe[src*=\"duosecurity.com\"]", "iframe[title*=\"duo\" i]", ".duo-frame",
                 "#duo_iframe", ".duo-auth"})
    \/ \E w \in {"duo mobile", "duo security", "duosecurity.com", "duo authentication",
                 "push notification"} : Includes(ToLowerCase(d.content), w)

IsDuoComplete(d) ==
    \/ Includes(d.content, "success")
    \/ Includes(d.content, "approved")
    \/ ~Includes(d.content, "duo")

IsBackOnMoodle(d) ==
    Query(d, {".course-content", ".dashboard", ".block_myoverview", "#page-wrapper"})

IsDuoFailed(d) ==
    \/ Includes(d.content, "denied")
    \/ Includes(d.content, "failed")
    \/ Includes(d.content, "expired")
    \/ Includes(d.content, "error")

\* waitFor2FACompletion of the guide
MaxWaitTime == 300000
CheckInterval == 2000
\* waitForDuoApproval of the Duo example
DuoMaxWaitTime == 180000
DuoCheckInterval == 3000

\* the loop test taking one turn too many
KeepsWaitingOneMore(elapsed, maxWaitTime) == elapsed <= maxWaitTime

\* while (elapsed < maxWaitTime)
KeepsWaiting(elapsed, maxWaitTime) == elapsed < maxWaitTime

DuoApprovedPage == Pg({"#duo_iframe"}, "", "<iframe>duo approved</iframe>")
DuoDeniedPage == Pg({"#duo_iframe"}, "", "<iframe>duo denied</iframe>")
DuoTitlePage == Pg({"iframe[title*=\"duo\" i]"}, "", "<iframe title=\"Duo\">")
EnrolCodePage == Pg({".dashboard", "input[name=\"code\"]"}, "", "<div>Enrol code</div>")
CodePromptPage == Pg({}, "", "<p>Enter the Verification Code</p>")

ChallengePages ==
    {DuoPage, DuoApprovedPage, DuoDeniedPage, DuoTitlePage, EnrolCodePage, CodePromptPage,
     DashboardPage}

\* what one poll saw, added to what the polls before it saw
Seen(d, markers, loggedIn) ==
    [tf EXCEPT !.polls = @ + 1,
               !.markers = @ /\ markers,
               !.loggedIn = @ \/ loggedIn,
               !.denial = @ \/ IsDuoFailed(d)]

\* the wait of one poll, and the loop's test after it
Waited(t, interval, maxWaitTime) ==
    [t EXCEPT !.elapsed = @ + interval,
              !.result = IF KeepsWaiting(t.elapsed + interval, maxWaitTime)
                         THEN "waiting" ELSE "timeout"]

\* handleManual2FA: waits only when detect2FA finds a challenge
HandleManual2FA ==
    /\ tf.result = "idle"
    /\ \E d \in ChallengePages :
         /\ dom' = d
         /\ tf' = IF Detect2FA(d)
                  THEN [TfIdle EXCEPT !.loop = "guide", !.result = "waiting"]
                  ELSE [TfIdle EXCEPT !.loop = "guide", !.result = "not_required"]
    /\ UNCHANGED <<browser, page, launched, closed, stack, last, hist, during, auth, trail, elsewhere>>

\* one turn of the loop of waitFor2FACompletion
GuidePoll ==
    /\ tf.loop = "guide"
    /\ tf.result = "waiting"
    /\ \E d \in ChallengePages :
         LET still2FA == Detect2FA(d)
             onDashboard == IsOnDashboard(d)
             t == Seen(d, still2FA, onDashboard)
         IN  /\ dom' = d
             /\ tf' = IF ~still2FA \/ onDashboard
                      THEN [t EXCEPT !.result = "completed"]
                      ELSE Waited(t, CheckInterval, MaxWaitTime)
    /\ UNCHANGED <<browser, page, launched, closed, stack, last, hist, during, auth, trail, elsewhere>>

\* handleDuoPush: the push is sent and waitForDuoApproval starts
HandleDuoPush ==
    /\ tf.result = "idle"
    /\ tf' = [TfIdle EXCEPT !.loop = "duo", !.result = "waiting"]
    /\ UNCHANGED <<browser, page, launched, closed, dom, stack, last, hist, during, auth, trail, elsewhere>>

\* one turn of the loop of waitForDuoApproval
DuoPoll ==
    /\ tf.loop = "duo"
    /\ tf.result = "waiting"
    /\ \E d \in ChallengePages :
         LET done == IsDuoComplete(d) \/ IsBackOnMoodle(d)
             t == Seen(d, DetectDuoMobile(d), done)
         IN  /\ dom' = d
             /\ tf' = IF done THEN [t EXCEPT !.result = "completed"]
                      ELSE IF IsDuoFailed(d) THEN [t EXCEPT !.result = "denied"]
                      ELSE Waited(t, DuoCheckInterval, DuoMaxWaitTime)
    /\ UNCHANGED <<browser, page, launched, closed, stack, last, hist, during, auth, trail, elsewhere>>

NextTwoFactor ==
    \/ HandleManual2FA
    \/ GuidePoll
    \/ HandleDuoPush
    \/ DuoPoll

SpecTwoFactor == Init /\ [][NextTwoFactor]_vars

(***************************************************************************)
(* The scrape methods                                                      *)
(*                                                                         *)
(* A scrape method is a task that has one page operation in flight at      *)
(* each of its awaits; a step is the driver answering that operation and   *)
(* the method running on to its next await or to its return.  Called       *)
(* alone, one task runs; scrapeAll() starts the four of them in one        *)
(* Promise.all and the driver answers them in any order.                   *)
(***************************************************************************)
\* Bound of the model: elements a document lists.
MaxElements == 2

SeqsUpTo(S, n) == UNION {[1..k -> S] : k \in 0..n}

CourseElements ==
    {Element(sel, sound) :
        sel \in {"a[href*=\"assign\"]", "a[href*=\"resource\"]", ".activity.lti"},
        sound \in BOOLEAN}
GradebookElements == {Element("tr.graderow", sound) : sound \in BOOLEAN}

CourseDocuments ==
    {Document(els, link) : els \in SeqsUpTo(CourseElements, MaxElements), link \in BOOLEAN}
GradebookDocuments ==
    {Document(els, FALSE) : els \in SeqsUpTo(GradebookElements, MaxElements)}

\* the selector each scrape method gives to page.$$
Selectors(c) ==
    CASE c = "assignments" ->
            {"a[href*=\"assign\"]", "a[href*=\"assignment\"]", ".activity.assign"}
      [] c = "grades" -> {"tr.graderow", ".gradestable tr"}
      [] c = "files" ->
            {"a[href*=\"resource\"]", "a[href*=\"folder\"]", ".activity.resource"}
      [] c = "zybookIntegrations" ->
            {"a[href*=\"zybook\"]", "a[href*=\"zybooks\"]", ".activity.lti"}

\* the document the page shows
Shown == IF gen = 0 THEN course ELSE gradebook

\* page.$$(selector) on document d, the g-th of the page: handles of the elements
\* that match, in document order
Handles(d, g, parts) ==
    SelectSeq([i \in DOMAIN d.els |->
                  [id |-> i, gen |-> g, sel |-> d.els[i].sel, sound |-> d.els[i].sound]],
              LAMBDA h : h.sel \in parts)

\* element.evaluate resolves on a sound element of the document the page shows
Evaluates(h, g) == h.gen = g /\ h.sound

\* the record extract*Data makes of an element
Record(h) == [of |-> h.id, from |-> h.gen]

\* extract*Data(element) and "if (record) list.push(record)": evaluate throwing is
\* caught, null is returned and nothing is pushed
Extracted(h, g) == IF Evaluates(h, g) THEN <<Record(h)>> ELSE <<>>

StartTask(c) == [IdleTask EXCEPT !.at = IF c = "grades" THEN "$" ELSE "$$"]

\* the method returns its list
Finished(t) == [t EXCEPT !.at = "done"]
\* the outer catch of the method: it warns and returns its list
Caught(t) == [t EXCEPT !.at = "done", !.caught = TRUE]

\* page.$$ resolved with hs: the loop over the elements starts
AfterQuery(t, hs) ==
    IF hs = <<>> THEN Finished([t EXCEPT !.els = hs])
    ELSE [t EXCEPT !.els = hs, !.i = 1, !.at = "evaluate"]

\* one turn of the loop that stops at the first element whose access throws
AfterEvaluateAborting(t, g) ==
    IF Evaluates(t.els[t.i], g)
    THEN [t EXCEPT !.out = @ \o <<Record(t.els[t.i])>>,
                   !.i = @ + 1,
                   !.at = IF t.i = Len(t.els) THEN "done" ELSE "evaluate"]
    ELSE Caught(t)

\* one turn of "for (const element of elements)"
AfterEvaluate(t, g) ==
    [t EXCEPT !.out = @ \o Extracted(t.els[t.i], g),
              !.i = @ + 1,
              !.at = IF t.i = Len(t.els) THEN "done" ELSE "evaluate"]

\* no scrape method is running
Quiet == \A c \in Categories : tasks[c].at \in {"idle", "done"}

\* scrapeAssignments(), scrapeGrades(), scrapeFiles() or scrapeZybookIntegrations()
\* called with the page on the course page
ScrapeCall ==
    /\ Quiet
    /\ stack = <<>>
    /\ page # 0
    /\ \E c \in Categories : tasks' = [NoTasks EXCEPT ![c] = StartTask(c)]
    /\ gradebook' = NoDocument
    /\ gen' = 0
    /\ UNCHANGED course
    /\ UNCHANGED <<session, calc>>

\* scrapeAll(): Promise.all([scrapeAssignments(), scrapeGrades(), scrapeFiles(),
\* scrapeZybookIntegrations()]) calls the four methods, each running up to its
\* first await
CollectCall ==
    /\ Quiet
    /\ stack = <<>>
    /\ page # 0
    /\ tasks' = [c \in Categories |-> StartTask(c)]
    /\ gradebook' = NoDocument
    /\ gen' = 0
    /\ UNCHANGED course
    /\ UNCHANGED <<session, calc>>

\* await this.page.$$(selector)
QueryAll ==
    /\ \E c \in Categories, r \in {"ok", "rejects"} :
         /\ tasks[c].at = "$$"
         /\ tasks' = [tasks EXCEPT ![c] =
                         IF r = "rejects" THEN Caught(@)
                         ELSE AfterQuery(@, Handles(Shown, gen, Selectors(c)))]
    /\ UNCHANGED <<course, gradebook, gen>>
    /\ UNCHANGED <<session, calc>>

\* await this.extract...Data(element)
Evaluate ==
    /\ \E c \in Categories :
         /\ tasks[c].at = "evaluate"
         /\ tasks' = [tasks EXCEPT ![c] = AfterEvaluate(@, gen)]
    /\ UNCHANGED <<course, gradebook, gen>>
    /\ UNCHANGED <<session, calc>>

\* scrapeGrades: await this.page.$(grades link)
FindGradesLink ==
    /\ tasks["grades"].at = "$"
    /\ \E r \in {"ok", "rejects"} :
         tasks' = [tasks EXCEPT !["grades"] =
                      IF r = "rejects" THEN Caught(@)
                      ELSE IF Shown.link THEN [@ EXCEPT !.at = "click"]
                      ELSE Finished(@)]
    /\ UNCHANGED <<course, gradebook, gen>>
    /\ UNCHANGED <<session, calc>>

\* scrapeGrades: await gradesLink.click(); the click starts the navigation to the
\* gradebook, and click() resolves when the click is dispatched: the navigation
\* has completed by the time the method goes on (early), or is still under way
ClickGradesLink ==
    /\ tasks["grades"].at = "click"
    /\ \E r \in {"ok", "rejects"}, d \in GradebookDocuments, early \in BOOLEAN :
         IF r = "rejects"
         THEN /\ tasks' = [tasks EXCEPT !["grades"] = Caught(@)]
              /\ UNCHANGED <<gradebook, gen>>
         ELSE /\ tasks' = [tasks EXCEPT !["grades"] = [@ EXCEPT !.at = "waitForNavigation"]]
              /\ gradebook' = d
              /\ gen' = IF early THEN gen + 1 ELSE gen
    /\ UNCHANGED course
    /\ UNCHANGED <<session, calc>>

\* scrapeGrades: await this.page.waitForNavigation(...), registered after the
\* click resolved: it resolves when the navigation under way completes, and
\* times out when that navigation completed before or takes too long
WaitForNavigation ==
    /\ tasks["grades"].at = "waitForNavigation"
    /\ IF gen > 0
       THEN /\ tasks' = [tasks EXCEPT !["grades"] = Caught(@)]
            /\ UNCHANGED gen
       ELSE \E nav \in NavOutcomes :
              IF nav = "timeout"
              THEN /\ tasks' = [tasks EXCEPT !["grades"] = Caught(@)]
                   /\ UNCHANGED gen
              ELSE /\ tasks' = [tasks EXCEPT !["grades"] = [@ EXCEPT !.at = "$$"]]
                   /\ gen' = gen + 1
    /\ UNCHANGED <<course, gradebook>>
    /\ UNCHANGED <<session, calc>>

\* the instance after initialize() returned, and the course page of the site
InitScrape ==
    /\ credentials =
         Credential("test@example.com", "testpassword",
                    "https://test-moodle.com/course/view.php?id=123")
    /\ browser = 1
    /\ page = 1
    /\ launched = {1}
    /\ closed = {}
    /\ dom = BlankPage
    /\ stack = <<>>
    /\ last = [op |-> "initialize", kind |-> "returned", msg |-> "", val |-> "void"]
    /\ hist = "initialized"
    /\ during = {1}
    /\ auth = NoAuth
    /\ tf = TfIdle
    /\ trail = <<[m |-> "initialize", kind |-> "returned", msg |-> ""]>>
    /\ course \in CourseDocuments
    /\ gradebook = NoDocument
    /\ gen = 0
    /\ tasks = NoTasks
    /\ calc = NoCalc

NextScrape ==
    \/ ScrapeCall
    \/ CollectCall
    \/ QueryAll
    \/ Evaluate
    \/ FindGradesLink
    \/ ClickGradesLink
    \/ WaitForNavigation

SpecScrape == InitScrape /\ [][NextScrape]_vars

(***************************************************************************)
(* extractors.ts: parseDate                                                *)
(*                                                                         *)
(* The regular expressions are matched on the characters of the text.      *)
(* new Date(string) is the date parser of the JavaScript engine the        *)
(* package runs on (Node.js): a numeric date is month/day/year unless the  *)
(* first number cannot be a day, a month must be 1..12 and a day 1..31,    *)
(* and a day past the end of its month rolls over into the next month.     *)
(***************************************************************************)
Char(s, i) == IF i \in 1..Len(s) THEN SubSeq(s, i, i) ELSE ""

Digits == "0123456789"
IsDigit(c) == c # "" /\ Includes(Digits, c)
\* \w
IsWordChar(c) == c # "" /\ Includes(LowerCase \o UpperCase \o Digits \o "_", c)

\* the number of characters from position i on that are digits / word characters
RECURSIVE DigitRun(_, _)
DigitRun(s, i) == IF IsDigit(Char(s, i)) THEN 1 + DigitRun(s, i + 1) ELSE 0
RECURSIVE WordRun(_, _)
WordRun(s, i) == IF IsWordChar(Char(s, i)) THEN 1 + WordRun(s, i + 1) ELSE 0

DigitVal(c) == CHOOSE n \in 0..9 : Char(Digits, n + 1) = c
\* the number a string of digits writes
RECURSIVE Number(_)
Number(s) ==
    IF s = "" THEN 0
    ELSE 10 * Number(SubSeq(s, 1, Len(s) - 1)) + DigitVal(Char(s, Len(s)))

Min(a, b) == IF a < b THEN a ELSE b

\* Each ...End(s, i) is the position of the last character of the match that
\* starts at position i, 0 when the pattern does not match there.

\* /(\d{1,2}[\/\-]\d{1,2}[\/\-]\d{2,4})/
NumericEnd(s, i) ==
    LET a == DigitRun(s, i)
        b == DigitRun(s, i + a + 1)
        c == DigitRun(s, i + a + b + 2)
    IN  IF /\ a \in 1..2
           /\ Char(s, i + a) \in {"/", "-"}
           /\ b \in 1..2
           /\ Char(s, i + a + b + 1) \in {"/", "-"}
           /\ c >= 2
        THEN i + a + b + 1 + Min(c, 4)
        ELSE 0

\* /(\w+ \d{1,2}, \d{4})/
MonthFirstEnd(s, i) ==
    LET w == WordRun(s, i)
        d == DigitRun(s, i + w + 1)
    IN  IF /\ w >= 1
           /\ Char(s, i + w) = " "
           /\ d \in 1..2
           /\ Char(s, i + w + d + 1) = ","
           /\ Char(s, i + w + d + 2) = " "
           /\ DigitRun(s, i + w + d + 3) >= 4
        THEN i + w + d + 6
        ELSE 0

\* /(\d{4}-\d{2}-\d{2})/
IsoEnd(s, i) ==
    IF /\ DigitRun(s, i) >= 4
       /\ Char(s, i + 4) = "-"
       /\ DigitRun(s, i + 5) >= 2
       /\ Char(s, i + 7) = "-"
       /\ DigitRun(s, i + 8) >= 2
    THEN i + 9
    ELSE 0

\* /(\d{1,2} \w+ \d{4})/
DayFirstEnd(s, i) ==
    LET a == DigitRun(s, i)
        w == WordRun(s, i + a + 1)
    IN  IF /\ a \in 1..2
           /\ Char(s, i + a) = " "
           /\ w >= 1
           /\ Char(s, i + a + w + 1) = " "
           /\ DigitRun(s, i + a + w + 2) >= 4
        THEN i + a + w + 5
        ELSE 0

\* dateText.match(pattern)[1]: the leftmost match, "" when there is none
Match(s, End(_, _)) ==
    LET hits == {i \in 1..Len(s) : End(s, i) # 0}
    IN  IF hits = {} THEN ""
        ELSE LET i == CHOOSE j \in hits : \A k \in hits : j <= k
             IN  SubSeq(s, i, End(s, i))

\* Date values: a calendar day, or the Invalid Date whose getTime() is NaN
DateOf(y, m, d) == [kind |-> "date", y |-> y, m |-> m, d |-> d]
InvalidDate == [kind |-> "invalid", y |-> 0, m |-> 0, d |-> 0]
NullDate == [kind |-> "null", y |-> 0, m |-> 0, d |-> 0]

IsLeap(y) == (y % 4 = 0 /\ y % 100 # 0) \/ y % 400 = 0
DaysIn(m, y) ==
    IF m = 2 THEN (IF IsLeap(y) THEN 29 ELSE 28)
    ELSE IF m \in {4, 6, 9, 11} THEN 30
    ELSE 31

IsMonth(m) == m \in 1..12
IsDay(d) == d \in 1..31

\* the day the engine makes of year, month and day: a day past the end of the
\* month is counted on into the next month
MakeDay(y, m, d) ==
    IF ~IsMonth(m) \/ ~IsDay(d) THEN InvalidDate
    ELSE IF d <= DaysIn(m, y) THEN DateOf(y, m, d)
    ELSE DateOf(y, m + 1, d - DaysIn(m, y))

\* a year written with one or two digits is a year of 2000..2049 or 1950..1999
FullYear(y) == IF y \in 0..49 THEN y + 2000 ELSE IF y \in 50..99 THEN y + 1900 ELSE y

MonthNames ==
    <<"jan", "feb", "mar", "apr", "may", "jun", "jul", "aug", "sep", "oct", "nov", "dec">>
\* month names are recognized by their first three letters; 0 for another word
MonthNumber(word) ==
    LET hits == {k \in 1..12 : MonthNames[k] = ToLowerCase(SubSeq(word, 1, Min(3, Len(word))))}
    IN  IF hits = {} THEN 0 ELSE CHOOSE k \in hits : TRUE

\* new Date(string), for the strings the four patterns capture
NewDate(str) ==
    IF str # "" /\ IsoEnd(str, 1) = Len(str)
    THEN MakeDay(Number(SubSeq(str, 1, 4)), Number(SubSeq(str, 6, 7)),
                 Number(SubSeq(str, 9, 10)))
    ELSE IF str # "" /\ NumericEnd(str, 1) = Len(str)
    THEN LET a == DigitRun(str, 1)
             b == DigitRun(str, a + 2)
             n1 == Number(SubSeq(str, 1, a))
             n2 == Number(SubSeq(str, a + 2, a + b + 1))
             n3 == Number(SubSeq(str, a + b + 3, Len(str)))
         IN  IF IsDay(n1) THEN MakeDay(FullYear(n3), n1, n2)
             ELSE MakeDay(FullYear(n1), n2, n3)
    ELSE IF str # "" /\ MonthFirstEnd(str, 1) = Len(str)
    THEN LET w == WordRun(str, 1)
             d == DigitRun(str, w + 2)
             month == MonthNumber(SubSeq(str, 1, w))
             n1 == Number(SubSeq(str, w + 2, w + d + 1))
             n2 == Number(SubSeq(str, w + d + 4, Len(str)))
         IN  IF month = 0 THEN MakeDay(2001, n1, n2)
             ELSE IF IsDay(n1) THEN MakeDay(n2, month, n1)
             ELSE MakeDay(n1, month, n2)
    ELSE IF str # "" /\ DayFirstEnd(str, 1) = Len(str)
    THEN LET a == DigitRun(str, 1)
             w == WordRun(str, a + 2)
             month == MonthNumber(SubSeq(str, a + 2, a + w + 1))
             n1 == Number(SubSeq(str, 1, a))
             n2 == Number(SubSeq(str, a + w + 3, Len(str)))
         IN  IF month = 0 THEN InvalidDate
             ELSE IF IsDay(n1) THEN MakeDay(n2, month, n1)
             ELSE MakeDay(n1, month, n2)
    ELSE InvalidDate

\* parseDate(dateText)
ParseDate(dateText) ==
    IF dateText = "" THEN NullDate
    ELSE LET matches == <<Match(dateText, NumericEnd), Match(dateText, MonthFirstEnd),
                          Match(dateText, IsoEnd), Match(dateText, DayFirstEnd)>>
             parsed == {k \in 1..4 : matches[k] # "" /\ NewDate(matches[k]).kind = "date"}
         IN  IF parsed = {} THEN NullDate
             ELSE NewDate(matches[CHOOSE k \in parsed : \A j \in parsed : k <= j])

\* Date texts: the text, and the month, day and year it writes (form "none": no date)
Written(form, text, m, d, y) == [form |-> form, text |-> text, m |-> m, d |-> d, y |-> y]

Pad(n, width) == SubSeq("0000", 1, width - Len(ToString(n))) \o ToString(n)

SlashDates ==
    {Written("numeric", ToString(m) \o "/" \o ToString(d) \o "/" \o ToString(y), m, d, y) :
        m \in {1, 2, 12, 13, 32}, d \in {1, 29, 30, 31, 32}, y \in {1970, 2023, 2024, 2099}}
IsoDates ==
    {Written("iso", Pad(y, 4) \o "-" \o Pad(m, 2) \o "-" \o Pad(d, 2), m, d, y) :
        m \in {0, 2, 13}, d \in {0, 29, 32}, y \in {0, 2023, 2024, 2025}}
NamedDates ==
    {Written("monthFirst", "January 15, 2025", 1, 15, 2025),
     Written("monthFirst", "Due: February 30, 2023", 2, 30, 2023),
     Written("dayFirst", "15 January 2025", 1, 15, 2025),
     Written("dayFirst", "31 April 2025", 4, 31, 2025)}
NoDates ==
    {Written("none", text, 0, 0, 0) : text \in {"", "not a date", "undefined", "null"}}
DateTexts == SlashDates \cup IsoDates \cup NamedDates \cup NoDates

\* parseDate applied to a date text; the helpers keep no state, so a behaviour
\* shows one application
ApplyParseDate ==
    /\ calc = NoCalc
    /\ \E w \in DateTexts :
         calc' = [fn |-> "parseDate", given |-> w, out |-> ParseDate(w.text)]
    /\ UNCHANGED <<session, scraping>>

(***************************************************************************)
(* Extraction of one element                                               *)
(*                                                                         *)
(* An element is what the callback given to element.evaluate reads of it:  *)
(* the textContent of each sub-element its querySelector calls look for    *)
(* (Null when there is no such sub-element), its href, its icon.           *)
(***************************************************************************)
\* subElement?.textContent?.trim() || fallback
Text(t, fallback) == IF t = Null \/ Trim(t) = "" THEN fallback ELSE Trim(t)

\* the record an extractor returns, and its null
NoRecord == [ok |-> FALSE]

\* /(\d+\.?\d*)/
NumberEnd(s, i) ==
    LET a == DigitRun(s, i)
    IN  IF a = 0 THEN 0
        ELSE IF Char(s, i + a) = "." THEN i + a + DigitRun(s, i + a + 1)
        ELSE i + a - 1

\* numbers are fractions num / den
Num(num, den) == [num |-> num, den |-> den]
RECURSIVE Power10(_)
Power10(n) == IF n = 0 THEN 1 ELSE 10 * Power10(n - 1)

\* parseFloat of a text matched by /(\d+\.?\d*)/
ParseFloat(str) ==
    LET a == DigitRun(str, 1)
        f == Len(str) - Min(Len(str), a + 1)
    IN  Num(Number(SubSeq(str, 1, a) \o SubSeq(str, a + 2, Len(str))), Power10(f))

\* match ? parseFloat(match[1]) : fallback
Parsed(text, fallback) ==
    IF Match(text, NumberEnd) = "" THEN Num(fallback, 1) ELSE ParseFloat(Match(text, NumberEnd))

NoPercentage == [kind |-> "null", num |-> 0, den |-> 1]
\* (grade / maxGrade) * 100
Percentage(g, m) == [kind |-> "number", num |-> g.num * m.den * 100, den |-> g.den * m.num]
ZeroPercentage == [kind |-> "number", num |-> 0, den |-> 1]

GradeElement(itemName, grade, maxGrade, feedback, date) ==
    [itemName |-> itemName, grade |-> grade, maxGrade |-> maxGrade, feedback |-> feedback,
     date |-> date]

\* extractGrade of extractors.ts
ExtractGrade(el) ==
    LET gradeText == Text(el.grade, "0")
        maxGradeText == Text(el.maxGrade, "0")
        gradeValue == Parsed(gradeText, 0)
        maxGradeValue == Parsed(maxGradeText, 100)
        dateText == Text(el.date, "")
    IN  [ok |-> TRUE,
         itemName |-> Text(el.itemName, Null),
         grade |-> gradeText,
         maxGrade |-> maxGradeText,
         percentage |-> IF maxGradeValue.num > 0 THEN Percentage(gradeValue, maxGradeValue)
                        ELSE ZeroPercentage,
         feedback |-> Text(el.feedback, Null),
         dateModified |-> IF dateText # "" /\ NewDate(dateText).kind = "date"
                          THEN NewDate(dateText) ELSE NullDate]

\* MoodleScraper.extractGradeData: toISOString() of an Invalid Date throws inside
\* the callback, and the catch returns null
ExtractGradeData(el) ==
    LET gradeText == Text(el.grade, "0")
        maxGradeText == Text(el.maxGrade, "0")
        grade == Parsed(gradeText, 0)
        maxGrade == Parsed(maxGradeText, 100)
        dateText == Text(el.date, "")
    IN  IF dateText # "" /\ NewDate(dateText).kind # "date" THEN NoRecord
        ELSE [ok |-> TRUE,
              itemName |-> Text(el.itemName, "Unknown Item"),
              grade |-> gradeText,
              maxGrade |-> maxGradeText,
              percentage |-> IF maxGrade.num > 0 THEN Percentage(grade, maxGrade)
                             ELSE NoPercentage,
              feedback |-> Text(el.feedback, Null),
              dateModified |-> IF dateText # "" THEN NewDate(dateText) ELSE NullDate]

GradeElements ==
    {GradeElement(itemName, grade, maxGrade, feedback, date) :
        itemName \in {Null, "", "Quiz 1"},
        grade \in {Null, "A+", "100", "87.5", "0"},
        maxGrade \in {Null, "", "0", "0.0", "Pass/Fail", "100", " 50 "},
        feedback \in {Null, "Good work"},
        date \in {Null, "yesterday", "2025-01-15"}}

\* extractGrade / extractGradeData applied to a grade row
ApplyExtractGrade ==
    /\ calc = NoCalc
    /\ \E el \in GradeElements :
         \/ calc' = [fn |-> "extractGrade", given |-> el, out |-> ExtractGrade(el)]
         \/ calc' = [fn |-> "extractGradeData", given |-> el, out |-> ExtractGradeData(el)]
    /\ UNCHANGED <<session, scraping>>

(***************************************************************************)
(* Files                                                                   *)
(***************************************************************************)
\* url.split('.'): the positions of the dots, and the last part
Dots(url) == {i \in 1..Len(url) : Char(url, i) = "."}
Max(S) == CHOOSE i \in S : \A j \in S : j <= i
\* url.split('.').pop()
Pop(url) == IF Dots(url) = {} THEN url ELSE SubSeq(url, Max(Dots(url)) + 1, Len(url))

NoIcon == [there |-> FALSE, src |-> "", className |-> ""]
Icon(src, className) == [there |-> TRUE, src |-> src, className |-> className]

FileElement(name, href, size, type, icon) ==
    [name |-> name, href |-> href, size |-> size, type |-> type, icon |-> icon]

\* (linkElement as HTMLAnchorElement)?.href || ''
Href(el) == IF el.href = Null THEN "" ELSE el.href

IconVocabulary ==
    <<"pdf", "document", "spreadsheet", "presentation", "image", "video", "audio">>

\* iconSrc.includes(word) || iconClass.includes(word)
Hints(icon, word) == Includes(icon.src, word) \/ Includes(icon.className, word)

\* the if / else if chain over the vocabulary
IconType(icon, type) ==
    LET found == {i \in DOMAIN IconVocabulary : Hints(icon, IconVocabulary[i])}
    IN  IF found = {} THEN type
        ELSE IconVocabulary[CHOOSE i \in found : \A j \in found : i <= j]

\* type || 'unknown'
OrUnknown(type) == IF type = "" THEN "unknown" ELSE type

\* extractFile of extractors.ts
ExtractFile(el) ==
    LET url == Href(el)
        type0 == Text(el.type, "")
        extension == IF Dots(url) # {} THEN ToLowerCase(Pop(url)) ELSE ""
        type1 == IF type0 = "" /\ url # "" THEN OrUnknown(extension) ELSE type0
        type2 == OrUnknown(type1)
        type3 == IF type2 = "unknown" /\ el.icon.there THEN IconType(el.icon, type2) ELSE type2
    IN  [ok |-> TRUE,
         name |-> Text(el.name, "Unknown File"),
         url |-> url,
         size |-> Text(el.size, "Unknown size"),
         type |-> OrUnknown(type3),
         downloadUrl |-> url]

\* MoodleScraper.extractFileData
ExtractFileData(el) ==
    LET url == Href(el)
        type0 == Text(el.type, "")
    IN  [ok |-> TRUE,
         name |-> Text(el.name, "Unknown File"),
         url |-> url,
         size |-> Text(el.size, "Unknown size"),
         type |-> IF type0 = "" /\ url # "" THEN OrUnknown(ToLowerCase(Pop(url))) ELSE type0,
         downloadUrl |-> url]

FileElements ==
    {FileElement(name, href, size, type, icon) :
        name \in {Null, "Test File"},
        href \in {Null, "", "https://test.com/file", "https://test.com/file.PDF",
                  "https://test.com/notes.xyz", "file", "https://test.com/file."},
        size \in {Null, "1MB"},
        type \in {Null, "", "pdf"},
        icon \in {NoIcon, Icon("", ""), Icon("/theme/f/pdf-24.png", "icon"),
                  Icon("/theme/icon.png", "activityicon video")}}

\* extractFile / extractFileData applied to a file element
ApplyExtractFile ==
    /\ calc = NoCalc
    /\ \E el \in FileElements :
         \/ calc' = [fn |-> "extractFile", given |-> el, out |-> ExtractFile(el)]
         \/ calc' = [fn |-> "extractFileData", given |-> el, out |-> ExtractFileData(el)]
    /\ UNCHANGED <<session, scraping>>

(***************************************************************************)
(* Assignments and Zybook integrations                                     *)
(***************************************************************************)
\* /id=(\d+)/
IdEnd(s, i) ==
    IF SubSeq(s, i, Min(Len(s), i + 2)) = "id=" /\ DigitRun(s, i + 3) > 0
    THEN i + 2 + DigitRun(s, i + 3)
    ELSE 0

\* Math.random().toString()
RandomId == "<random>"

\* url.match(/id=(\d+)/)?.[1] || Math.random().toString()
IdOf(url) ==
    IF Match(url, IdEnd) = "" THEN RandomId
    ELSE SubSeq(Match(url, IdEnd), 4, Len(Match(url, IdEnd)))

\* the due date of the extractors.ts callbacks: a matched text that is no date
\* leaves null
DueDate(text) ==
    LET m == Match(Text(text, ""), NumericEnd)
    IN  IF m # "" /\ NewDate(m).kind = "date" THEN NewDate(m) ELSE NullDate

\* the due date of the MoodleScraper callbacks: toISOString() of an Invalid Date
\* throws
DueDateThrows(text) ==
    LET m == Match(Text(text, ""), NumericEnd)
    IN  m # "" /\ NewDate(m).kind # "date"

\* statusElement.textContent?.toLowerCase() || '' and the two tests on it
SubmissionStatus(status) ==
    LET statusText == IF status = Null THEN "" ELSE ToLowerCase(status)
    IN  IF Includes(statusText, "submitted") \/ Includes(statusText, "complete")
        THEN "submitted"
        ELSE IF Includes(statusText, "late") \/ Includes(statusText, "overdue")
        THEN "late"
        ELSE "not_submitted"

\* null in place of a number
NullNumber == [num |-> 0, den |-> 0]

\* [\s\/]* from a position
RECURSIVE SeparatorRun(_, _)
SeparatorRun(s, i) ==
    IF i <= Len(s) /\ (IsSpace(Char(s, i)) \/ Char(s, i) = "/")
    THEN 1 + SeparatorRun(s, i + 1)
    ELSE 0

\* gradeText.match(/(\d+\.?\d*)[\s\/]*(\d+\.?\d*)?/): the two groups
GradeMatch(gradeText) ==
    LET first == Match(gradeText, NumberEnd)
        hits == {i \in 1..Len(gradeText) : NumberEnd(gradeText, i) # 0}
        i == CHOOSE j \in hits : \A k \in hits : j <= k
        j == NumberEnd(gradeText, i) + 1
        k == j + SeparatorRun(gradeText, j)
    IN  IF first = "" THEN <<>>
        ELSE IF NumberEnd(gradeText, k) = 0 THEN <<first>>
        ELSE <<first, SubSeq(gradeText, k, NumberEnd(gradeText, k))>>

AssignmentElement(title, href, dueDate, status, description, grade) ==
    [title |-> title, href |-> href, dueDate |-> dueDate, status |-> status,
     description |-> description, grade |-> grade]

\* extractAssignment of extractors.ts
ExtractAssignment(el) ==
    LET gradeMatch == GradeMatch(Text(el.grade, ""))
    IN  [ok |-> TRUE,
         id |-> IdOf(Href(el)),
         title |-> Text(el.title, "Unknown Assignment"),
         description |-> Text(el.description, ""),
         dueDate |-> DueDate(el.dueDate),
         submissionStatus |-> SubmissionStatus(el.status),
         maxGrade |-> IF gradeMatch = <<>> THEN Num(0, 1)
                      ELSE IF Len(gradeMatch) = 2 THEN ParseFloat(gradeMatch[2])
                      ELSE Num(100, 1),
         currentGrade |-> IF gradeMatch = <<>> THEN NullNumber ELSE ParseFloat(gradeMatch[1]),
         url |-> Href(el)]

\* MoodleScraper.extractAssignmentData
ExtractAssignmentData(el) ==
    IF DueDateThrows(el.dueDate) THEN NoRecord
    ELSE [ok |-> TRUE,
          id |-> IdOf(Href(el)),
          title |-> Text(el.title, "Unknown Assignment"),
          description |-> "",
          dueDate |-> DueDate(el.dueDate),
          submissionStatus |-> SubmissionStatus(el.status),
          maxGrade |-> Num(0, 1),
          currentGrade |-> NullNumber,
          url |-> Href(el)]

AssignmentElements ==
    {AssignmentElement(title, href, dueDate, status, description, grade) :
        title \in {Null, "  ", "Homework 1"},
        href \in {Null, "https://moodle.test/mod/assign/view.php?id=42"},
        dueDate \in {Null, "", "Due: 12/15/2025", "13/45/2025", "tomorrow"},
        status \in {Null, "", "Submitted for grading", "Overdue", "Not submitted",
                    "Incomplete"},
        description \in {Null, "Read chapter 1"},
        grade \in {Null, "", "85 / 100", "8.5", "n/a"}}

\* extractAssignment / extractAssignmentData applied to an assignment element
ApplyExtractAssignment ==
    /\ calc = NoCalc
    /\ \E el \in AssignmentElements :
         \/ calc' = [fn |-> "extractAssignment", given |-> el, out |-> ExtractAssignment(el)]
         \/ calc' = [fn |-> "extractAssignmentData", given |-> el,
                     out |-> ExtractAssignmentData(el)]
    /\ UNCHANGED <<session, scraping>>

\* /(\d+)%/
PercentEnd(s, i) ==
    IF DigitRun(s, i) > 0 /\ Char(s, i + DigitRun(s, i)) = "%" THEN i + DigitRun(s, i) ELSE 0

\* progressMatch ? parseInt(progressMatch[1], 10) : null
Progress(text) ==
    LET m == Match(Text(text, ""), PercentEnd)
    IN  IF m = "" THEN NullNumber ELSE Num(Number(SubSeq(m, 1, Len(m) - 1)), 1)

ZybookElement(title, href, dueDate, status, statusClass, progress, barWidth) ==
    [title |-> title, href |-> href, dueDate |-> dueDate, status |-> status,
     statusClass |-> statusClass, progress |-> progress, barWidth |-> barWidth]

\* the completion status extractZybookIntegration reads of the status element
CompletionStatus(el) ==
    LET statusText == ToLowerCase(Trim(el.status))
    IN  IF el.status = Null THEN "Not started"
        ELSE IF Includes(statusText, "complete") \/ Includes(el.statusClass, "completion-y")
        THEN "Completed"
        ELSE IF Includes(statusText, "progress") \/ Includes(el.statusClass, "completion-n")
        THEN "In Progress"
        ELSE "Not started"

\* extractZybookIntegration of extractors.ts: the width of the progress bar is
\* read when the text of the progress element gave nothing
ExtractZybookIntegration(el) ==
    [ok |-> TRUE,
     title |-> Text(el.title, ""),
     url |-> Href(el),
     dueDate |-> DueDate(el.dueDate),
     completionStatus |-> CompletionStatus(el),
     progress |-> IF el.progress # Null /\ Progress(el.progress) = NullNumber
                  THEN Progress(el.barWidth)
                  ELSE Progress(el.progress)]

\* MoodleScraper.extractZybookData
ExtractZybookData(el) ==
    IF DueDateThrows(el.dueDate) THEN NoRecord
    ELSE [ok |-> TRUE,
          title |-> Text(el.title, "Zybook Activity"),
          url |-> Href(el),
          dueDate |-> DueDate(el.dueDate),
          completionStatus |-> Text(el.status, "Not started"),
          progress |-> Progress(el.progress)]

ZybookElements ==
    {ZybookElement(title, href, dueDate, status, statusClass, progress, barWidth) :
        title \in {Null, "", "zyBook Chapter 1"},
        href \in {Null, "https://moodle.test/mod/lti/view.php?id=7"},
        dueDate \in {Null, "Due 1/5/25", "99/99/99"},
        status \in {Null, "", "Completed", "In progress", "Viewed"},
        statusClass \in {"", "completion-y"},
        progress \in {Null, "", "75%", "half"},
        barWidth \in {Null, "40%"}}

\* extractZybookIntegration / extractZybookData applied to an integration element
ApplyExtractZybook ==
    /\ calc = NoCalc
    /\ \E el \in ZybookElements :
         \/ calc' = [fn |-> "extractZybookIntegration", given |-> el,
                     out |-> ExtractZybookIntegration(el)]
         \/ calc' = [fn |-> "extractZybookData", given |-> el, out |-> ExtractZybookData(el)]
    /\ UNCHANGED <<session, scraping>>

(***************************************************************************)
(* cleanText                                                               *)
(***************************************************************************)
\* the whitespace characters a text starts with
RECURSIVE SpaceRun(_, _)
SpaceRun(s, i) == IF i <= Len(s) /\ IsSpace(Char(s, i)) THEN 1 + SpaceRun(s, i + 1) ELSE 0

\* .replace(/\s+/g, ' ')
RECURSIVE CollapseSpaces(_)
CollapseSpaces(s) ==
    IF s = "" THEN ""
    ELSE IF SpaceRun(s, 1) > 0
         THEN " " \o CollapseSpaces(SubSeq(s, SpaceRun(s, 1) + 1, Len(s)))
         ELSE SubSeq(s, 1, 1) \o CollapseSpaces(SubSeq(s, 2, Len(s)))

\* the whitespace characters a text ends with
RECURSIVE TrailingRun(_)
TrailingRun(s) ==
    IF s # "" /\ IsSpace(Char(s, Len(s))) THEN 1 + TrailingRun(SubSeq(s, 1, Len(s) - 1)) ELSE 0

\* .replace(/^\s+|\s+$/g, ''): the run at the start is removed, then the run at
\* the end of what is left
StripEnds(s) ==
    LET rest == SubSeq(s, SpaceRun(s, 1) + 1, Len(s))
    IN  SubSeq(rest, 1, Len(rest) - TrailingRun(rest))

\* .replace(/\n/g, ' ')
RECURSIVE SpaceNewlines(_)
SpaceNewlines(s) ==
    IF s = "" THEN ""
    ELSE (IF SubSeq(s, 1, 1) = "\n" THEN " " ELSE SubSeq(s, 1, 1))
             \o SpaceNewlines(SubSeq(s, 2, Len(s)))

CleanTextUntrimmed(text) == SpaceNewlines(CollapseSpaces(text))
CleanText(text) == Trim(SpaceNewlines(StripEnds(CollapseSpaces(text))))

MaxText == 4
TextAlphabet == {"a", "b", " ", "\n", "\t", "\r"}
RECURSIVE TextsUpTo(_)
TextsUpTo(n) ==
    IF n = 0 THEN {""}
    ELSE TextsUpTo(n - 1) \cup {t \o c : t \in TextsUpTo(n - 1), c \in TextAlphabet}

\* cleanText applied to a text
ApplyCleanText ==
    /\ calc = NoCalc
    /\ \E text \in TextsUpTo(MaxText) :
         calc' = [fn |-> "cleanText", given |-> text, out |-> CleanText(text)]
    /\ UNCHANGED <<session, scraping>>

NextExtract ==
    \/ ApplyParseDate
    \/ ApplyExtractGrade
    \/ ApplyExtractFile
    \/ ApplyExtractAssignment
    \/ ApplyExtractZybook
    \/ ApplyCleanText

SpecExtract == Init /\ [][NextExtract]_vars

(***************************************************************************)
(* Properties                                                              *)
(***************************************************************************)
Idle == stack = <<>>
Logins == {"login", "authLogin"}

\* C1: when scrapeAll() or scrapeMoodle() has returned or rejected after it
\* launched a browser, every browser launched during the call is closed.
ScopedClose ==
    (Idle /\ last.op \in {"scrapeAll", "scrapeMoodle"} /\ during # {}) => during \subseteq closed

\* C2: at most one launched and not yet closed browser exists for the instance.
AtMostOneSession == Cardinality(Open) <= 1

\* C3: initialize() returned, then login() or scrapeAll() threw: the close() that
\* follows returns and leaves the instance with no open session.
CloseAfterFailure ==
    (Idle /\ hist = "closed") =>
        last.kind = "returned" /\ browser = 0 /\ page = 0 /\ Open = {}

\* C4: close() returns also when the browser's own close fails.
CloseNeverThrows == (Idle /\ last.op = "close") => last.kind = "returned"

\* no identifier field, no secret field and no submit control can be located
NoLoginControls(d) ==
    /\ FindLoginSelector(d).kind = "threw"
    /\ FindPasswordSelector(d).kind = "threw"
    /\ FindLoginButton(d).kind = "threw"
    /\ FindUsernameField(d) = Null
    /\ FindPasswordField(d) = Null
    /\ FindSubmitButton(d) = Null

\* C5: on a page without login controls login() rejects with a message that
\* contains 'Could not find login form elements', and submit is never clicked.
MissingFormReported ==
    (Idle /\ last.op \in Logins /\ auth.looked /\ NoLoginControls(auth.form)) =>
        /\ last.kind = "threw"
        /\ Includes(last.msg, "Could not find login form elements")
        /\ ~auth.clicked

\* the page shows Moodle's invalid-login error: an error-styled region whose text
\* says the login is invalid, failed or incorrect, the text being part of the content
ShowsInvalidCredentials(d) ==
    /\ Query(d, {".error", ".alert-danger", ".login-error", "[class*=\"error\"]"})
    /\ \/ Includes(d.errText, "Invalid login")
       \/ Includes(d.errText, "Login failed")
       \/ Includes(d.errText, "incorrect")
    /\ Includes(d.content, d.errText)

ShowsFailure(d) == Query(d, ErrorSelectors) /\ HasFailureText(d.errText)

\* C7: login() does not report success while the page reached after the
\* submission shows a second-factor challenge, no failure and no login form.
TwoFactorHeld ==
    (/\ Idle
     /\ last.op \in Logins
     /\ auth.settled
     /\ Detect2FA(dom)
     /\ ~ShowsFailure(dom)
     /\ ~HasLoginForm(dom)) => last.kind # "returned"

\* C9: on a landing page with a logged-in marker and no login-form marker login()
\* returns success without typing or clicking; with a login-form marker it does
\* not short-circuit.
AlreadyLoggedInShortcut ==
    (Idle /\ last.op \in Logins /\ auth.landed) =>
        /\ (Query(auth.landing, LoggedInMarkers) /\ ~Query(auth.landing, LoginFormMarkers)) =>
              last.kind = "returned" /\ ~auth.typed /\ ~auth.clicked
        /\ Query(auth.landing, LoginFormMarkers) => ~auth.shortcut

\* C10: after the submission, failure text gives an invalid-credentials failure,
\* otherwise a login form still present gives a still-on-login-page failure, and
\* login() never returns success while a login form is on the page.
VerificationOrder ==
    (Idle /\ last.op \in Logins /\ auth.settled) =>
        /\ ShowsFailure(dom) => last.kind = "threw" /\ Includes(last.msg, "Login failed: ")
        /\ (~ShowsFailure(dom) /\ HasLoginForm(dom)) =>
              last.kind = "threw" /\ Includes(last.msg, "still on login page")
        /\ last.kind = "returned" => ~HasLoginForm(dom)

Ended == tf.result \in {"completed", "timeout", "denied"}
PollsAllowed ==
    IF tf.loop = "duo" THEN DuoMaxWaitTime \div DuoCheckInterval
    ELSE MaxWaitTime \div CheckInterval
Interval == IF tf.loop = "duo" THEN DuoCheckInterval ELSE CheckInterval

Aggregates == {"scrapeAll", "scrapeMoodle"}
LoginThrew(i) == trail[i].m = "login" /\ trail[i].kind = "threw"
\* before position n of the trail login() returned and navigateToClass() returned after it
Prepared(n) ==
    \E j, k \in 1..(n - 1) :
        /\ j < k
        /\ trail[j].m = "login" /\ trail[j].kind = "returned"
        /\ trail[k].m = "navigateToClass" /\ trail[k].kind = "returned"

\* C11: when a login() awaited by scrapeAll() or scrapeMoodle() threw, the call
\* rejects with the error of that login() and returns no aggregate result; the
\* scrape methods start only after login() and navigateToClass() returned.
LoginFailureSurfaces ==
    /\ (Idle /\ last.op \in Aggregates) =>
          \A i \in DOMAIN trail :
              LoginThrew(i) => last.kind = "threw" /\ last.msg = trail[i].msg
    /\ Running("collect", "run") => Prepared(Len(trail) + 1)
    /\ \A i \in DOMAIN trail : trail[i].m = "collect" => Prepared(i)

\* a page.goto was called by the method at position i of the trail
Navigated(i) ==
    /\ trail[i].m \in {"login", "authLogin", "navigateToClass"}
    /\ trail[i].msg # "Browser not initialized"

StartsWith(s, t) == Len(s) >= Len(t) /\ SubSeq(s, 1, Len(t)) = t

\* every field is present and the class URL is an absolute http(s) URL
Configured(c) ==
    /\ c.email # ""
    /\ c.password # ""
    /\ StartsWith(c.classUrl, "http://") \/ StartsWith(c.classUrl, "https://")

\* C12: with an empty credential field or a malformed class URL no browser is
\* launched, no navigation is attempted, and login(), scrapeAll() and
\* scrapeMoodle() reject.
ConfigurationRejected ==
    ~Configured(credentials) =>
        /\ launched = {}
        /\ \A i \in DOMAIN trail : ~Navigated(i)
        /\ (Idle /\ last.op \in {"login", "scrapeAll", "scrapeMoodle"}) => last.kind = "threw"

\* the categories whose scrape method was called
Called == {c \in Categories : tasks[c].at # "idle"}
Records(hs) == [i \in DOMAIN hs |-> Record(hs[i])]

Alone(c) == Records(SelectSeq(Handles(course, 0, Selectors(c)), LAMBDA h : h.sound))

\* C14: when scrapeGrades() failed inside scrapeAll()'s Promise.all, the grades
\* list is empty and each other list is the one its method returns when it runs
\* on the course page without scrapeGrades().
GradesFailureIsolated ==
    (Called = Categories /\ Quiet /\ tasks["grades"].caught) =>
        /\ tasks["grades"].out = <<>>
        /\ \A c \in Categories \ {"grades"} :
               ~tasks[c].caught => tasks[c].out = Alone(c)

\* the scrape methods with a page operation in flight
InFlight == {c \in Categories : tasks[c].at \notin {"idle", "done"}}

\* C15: at most one page operation is in flight against the page at any time.
OnePageOperation == Cardinality(InFlight) <= 1

CalendarDay(m, d, y) == m \in 1..12 /\ d \in 1..DaysIn(m, y)

\* C17: parseDate returns null or a calendar-valid date, and null for every text
\* that matches no pattern and for every text that writes a day the calendar
\* does not have.
ParseDateRejectsInvalid ==
    calc.fn = "parseDate" =>
        /\ calc.out.kind \in {"null", "date"}
        /\ calc.out.kind = "date" => CalendarDay(calc.out.m, calc.out.d, calc.out.y)
        /\ calc.given.form = "none" => calc.out.kind = "null"
        /\ (calc.given.form # "none" /\ ~CalendarDay(calc.given.m, calc.given.d, calc.given.y))
              => calc.out.kind = "null"

\* the text names no number greater than zero: it has no number, or its number is 0
NoMaximum(text) ==
    Match(text, NumberEnd) = "" \/ ParseFloat(Match(text, NumberEnd)).num = 0

\* C18: when the maxGrade text has no number or its number is 0, the grade
\* record has percentage null, and grade and maxGrade are the texts as written.
PercentageNullWithoutMaximum ==
    (/\ calc.fn \in {"extractGrade", "extractGradeData"}
     /\ calc.out.ok
     /\ calc.given.grade # Null
     /\ calc.given.maxGrade # Null
     /\ Trim(calc.given.maxGrade) # ""
     /\ NoMaximum(calc.given.maxGrade)) =>
        /\ calc.out.percentage.kind = "null"
        /\ calc.out.grade = Trim(calc.given.grade)
        /\ calc.out.maxGrade = Trim(calc.given.maxGrade)

\* the last segment of the path of the URL has no dot: the URL has no extension
NoExtension(url) ==
    \A i \in Dots(url) : \E j \in (i + 1)..Len(url) : Char(url, j) = "/"

\* no type text and no icon that names a type of the vocabulary
NoTypeHint(el) ==
    /\ Text(el.type, "") = ""
    /\ \A i \in DOMAIN IconVocabulary : ~Hints(el.icon, IconVocabulary[i])

\* C19: a file element with no type text and no icon hint, whose URL is empty
\* or has no extension, is extracted with type exactly 'unknown'.
UnknownFileType ==
    (/\ calc.fn \in {"extractFile", "extractFileData"}
     /\ NoTypeHint(calc.given)
     /\ NoExtension(Href(calc.given))) =>
        /\ calc.out.ok
        /\ calc.out.type = "unknown"

\* a text that is absent or empty
Blank(t) == t = Null \/ Trim(t) = ""

\* an element whose content is empty or absent
EmptyElement(el) ==
    \A f \in DOMAIN el :
        IF f = "icon" THEN el[f].src = "" /\ el[f].className = "" ELSE Blank(el[f])

\* the defaults of the records of each extractor
Defaults(fn) ==
    CASE fn \in {"extractAssignment", "extractAssignmentData"} ->
             {<<"title", "Unknown Assignment">>}
      [] fn \in {"extractGrade", "extractGradeData"} -> {<<"itemName", "Unknown Item">>}
      [] fn \in {"extractFile", "extractFileData"} -> {<<"type", "unknown">>}
      [] fn \in {"extractZybookIntegration", "extractZybookData"} ->
             {<<"title", "Zybook Activity">>, <<"completionStatus", "Not started">>}
      [] OTHER -> {}

\* C20: an extractor given an element whose content is empty or absent returns
\* a record whose title, itemName, type and completionStatus hold their
\* defaults, never null or the empty string.
EmptyElementGetsDefaults ==
    (Defaults(calc.fn) # {} /\ EmptyElement(calc.given)) =>
        /\ calc.out.ok
        /\ \A d \in Defaults(calc.fn) : calc.out[d[1]] = d[2]

\* C21: an Assignment record returned by a successful extraction has a title
\* that is not the empty string and a url that is not the empty string.
AssignmentTitleAndUrl ==
    (calc.fn \in {"extractAssignment", "extractAssignmentData"} /\ calc.out.ok) =>
        /\ calc.out.title # ""
        /\ calc.out.url # ""

\* a text without whitespace other than single spaces between its words
Clean(s) ==
    /\ \A i \in 1..Len(s) : IsSpace(Char(s, i)) => Char(s, i) = " "
    /\ \A i \in 1..Len(s) : Char(s, i) = " " => (i > 1 /\ i < Len(s) /\ Char(s, i + 1) # " ")

\* C22: cleanText is idempotent, and its result has no whitespace other than
\* single spaces between runs of other characters, none leading or trailing.
CleanTextIdempotent ==
    calc.fn = "cleanText" =>
        /\ CleanText(calc.out) = calc.out
        /\ Clean(calc.out)

\* a text with whitespace at its start and a run holding a newline between two
\* words has been cleaned
CleanedMixedText ==
    /\ calc.fn = "cleanText"
    /\ IsSpace(Char(calc.given, 1))
    /\ \E i \in 2..(Len(calc.given) - 1) :
          /\ Char(calc.given, i) = "\n"
          /\ ~IsSpace(Char(calc.given, Len(calc.given)))
    /\ calc.out # calc.given
    /\ Includes(calc.out, " ")

\* C23: the resolution of the candidate selectors of the username field, the
\* password field and the submit control on the page a login looked at gives a
\* candidate that matches an element of the page, or a not-found value when no
\* candidate matches; it never throws.
SelectorResolutionNeverThrows ==
    (auth.looked /\ last.op \in {"login", "authLogin"}) =>
        LET d == auth.form
        IN  IF last.op = "login"
            THEN \A r \in {FindLoginSelector(d), FindPasswordSelector(d), FindLoginButton(d)} :
                    /\ r.kind = "returned"
                    /\ r.val = Null \/ r.val \in d.sel
            ELSE \A r \in {FindUsernameField(d), FindPasswordField(d), FindSubmitButton(d)} :
                    r = Null \/ r \in d.sel

\* the login whose lookup of the form the state shows
LoginRunning == stack # <<>> /\ Top.m \in Logins
LoginLooking ==
    IF LoginRunning THEN Top.m
    ELSE IF last.op \in Logins THEN last.op
    ELSE "none"

\* the identifier field, the secret field or the submit control is not resolved
\* by the login m on the page d
Unresolved(m, d) ==
    IF m = "login"
    THEN \E r \in {FindLoginSelector(d), FindPasswordSelector(d), FindLoginButton(d)} :
            r.kind = "threw"
    ELSE \E r \in {FindUsernameField(d), FindPasswordField(d), FindSubmitButton(d)} :
            r = Null

\* C24: login types the identifier and the secret only after the identifier
\* field, the secret field and the submit control are all resolved; when one of
\* them is unresolved the credentials are not typed, and login fails.
TypedAfterResolution ==
    (auth.looked /\ LoginLooking \in Logins /\ Unresolved(LoginLooking, auth.form)) =>
        /\ ~auth.typed
        /\ ~LoginRunning => last.kind = "threw"

\* the date text of the element an extractor was given: its due date, or the
\* date it was modified
DateTextGiven ==
    IF calc.fn \in {"extractGrade", "extractGradeData"} THEN calc.given.date
    ELSE calc.given.dueDate

\* the date field of the record
DateExtracted ==
    IF calc.fn \in {"extractGrade", "extractGradeData"} THEN calc.out.dateModified
    ELSE calc.out.dueDate

\* a text that is present and that new Date does not read as a date
NotADate(text) == ~Blank(text) /\ NewDate(Trim(text)).kind # "date"

\* C25: an element whose due-date or date-modified text is present but is not a
\* valid date still gives a record, whose date field is null.
InvalidDateKeepsRecord ==
    (/\ calc.fn \in {"extractAssignment", "extractAssignmentData", "extractGrade",
                     "extractGradeData", "extractZybookIntegration", "extractZybookData"}
     /\ NotADate(DateTextGiven)
     /\ Match(Trim(DateTextGiven), NumericEnd) # "" =>
            NewDate(Match(Trim(DateTextGiven), NumericEnd)).kind # "date") =>
        /\ calc.out.ok
        /\ DateExtracted = NullDate

\* what the other implementation of the extractor fn returns on the element el
Counterpart(fn, el) ==
    CASE fn = "extractAssignment" -> ExtractAssignmentData(el)
      [] fn = "extractAssignmentData" -> ExtractAssignment(el)
      [] fn = "extractGrade" -> ExtractGradeData(el)
      [] fn = "extractGradeData" -> ExtractGrade(el)
      [] fn = "extractFile" -> ExtractFileData(el)
      [] fn = "extractFileData" -> ExtractFile(el)
      [] fn = "extractZybookIntegration" -> ExtractZybookData(el)
      [] fn = "extractZybookData" -> ExtractZybookIntegration(el)

\* C26: an exported extractor and the private extraction method of MoodleScraper
\* for the same kind of element return the same record on the same content.
ExtractorsAgree ==
    Defaults(calc.fn) # {} => calc.out = Counterpart(calc.fn, calc.given)

\* the rows of the gradebook on which the extraction succeeds
GradeRows == SelectSeq(Handles(gradebook, 1, Selectors("grades")), LAMBDA h : h.sound)

\* C27: when the navigation started by the click on the grades link has
\* completed before scrapeGrades() registers its wait, the wait does not fail:
\* scrapeGrades() goes on to the rows of the gradebook instead of returning the
\* empty list.
EarlyNavigationTolerated ==
    [][(/\ tasks["grades"].at = "waitForNavigation"
        /\ gen = 1
        /\ GradeRows # <<>>
        /\ tasks'["grades"] # tasks["grades"])
          => tasks'["grades"].at = "$$"]_vars

\* the methods that need the page
NeedPage == {"login", "navigateToClass"} \cup ScrapeMethods

CloseIdempotent ==
    [][Running("close", "run") =>
          /\ trail'[Len(trail')].kind = "returned" => (browser' = 0 /\ page' = 0)
          /\ browser = 0 =>
                /\ trail'[Len(trail')].kind = "returned"
                /\ UNCHANGED <<browser, page, launched, closed, dom>>]_vars

\* close() has returned on an initialized instance and is called again
ClosedTwice ==
    /\ Running("close", "run")
    /\ Len(stack) = 1
    /\ last.op = "close"
    /\ last.kind = "returned"
    /\ closed # {}
    /\ browser = 0

\* the status text says that the work is not submitted, or incomplete
SaysNotSubmitted(status) ==
    \/ Includes(ToLowerCase(status), "not submitted")
    \/ Includes(ToLowerCase(status), "incomplete")

\* C30: the submissionStatus of an extracted assignment is 'submitted',
\* 'not_submitted' or 'late'; it is 'not_submitted' when there is no status
\* element and when the status text says the work is not submitted or
\* incomplete.
SubmissionStatusDenotes ==
    (calc.fn \in {"extractAssignment", "extractAssignmentData"} /\ calc.out.ok) =>
        /\ calc.out.submissionStatus \in {"submitted", "not_submitted", "late"}
        /\ calc.given.status = Null => calc.out.submissionStatus = "not_submitted"
        /\ (calc.given.status # Null /\ SaysNotSubmitted(calc.given.status)) =>
              calc.out.submissionStatus = "not_submitted"

====
